---- MODULE Spec2Model ----
(* A model of libtiled's custom property types (propertytype.cpp):          *)
(* the PropertyTypes registry and its two-pass loadFrom, the process-wide   *)
(* id counter, the class membership check canAddMemberOfType, and the       *)
(* value conversions of EnumPropertyType and ClassPropertyType.             *)
EXTENDS Integers, Sequences, FiniteSets, TLC

VARIABLES
    mTypes,     \* PropertyTypes::mTypes: the owned types, in insertion order
    nextId,     \* PropertyType::nextId, the process-wide counter
    maxIssued,  \* history: the largest id any type object was ever given
    list,       \* the records of the list that loadFrom has read
    listLen,    \* the length of the list handed to loadFrom
    pc,         \* position in loadFrom: "idle", "create", "resolve", "loaded"
    idx,        \* index of the loop of loadFrom that pc names
    enumDef,    \* an EnumPropertyType under conversion (SpecEnum)
    enumIn,     \* the value handed to the enum conversion
    enumOut,    \* what the conversion returned
    classDef,   \* the members of a ClassPropertyType under conversion (SpecClass)
    classIn,    \* the instance mapping handed to toPropertyValue
    classOut    \* what toPropertyValue returned

registryVars == <<mTypes, nextId, maxIssued, list, listLen, pc, idx>>
enumVars == <<enumDef, enumIn, enumOut>>
classVars == <<classDef, classIn, classOut>>
vars == <<mTypes, nextId, maxIssued, list, listLen, pc, idx,
          enumDef, enumIn, enumOut, classDef, classIn, classOut>>

-----------------------------------------------------------------------------
(* Bounds of the model.                                                     *)

MaxLen == 2          \* longest list handed to loadFrom
MaxRecId == 2        \* largest "id" a record carries (0: the key is absent)
MaxNextId == 6       \* loads are only started while nextId can stay below this

Names == {"A", "B"}
TypeStrings == {"class", "enum", "", "bogus"}
MemberOrder == <<"m", "n">>                  \* QMap iterates keys in sorted order
MemberNames == {MemberOrder[i] : i \in 1..Len(MemberOrder)}

NoId == -1           \* no type id: the member holds a plain value
NotFound == 0        \* nullptr of findTypeById / findTypeByName (indices start at 1)

Max(a, b) == IF a >= b THEN a ELSE b

-----------------------------------------------------------------------------
(* Values a class member can hold.                                          *)

\* fromVariant keeps the member's raw record; only "propertyType" matters here
RawMember(n) == [tag |-> "map", propertyType |-> n, typeId |-> NoId]
\* a value that is not wrapped in a custom type
PlainMember == [tag |-> "plain", propertyType |-> "", typeId |-> NoId]
\* PropertyType::wrap: PropertyValue { value, id }
wrap(id) == [tag |-> "PropertyValue", propertyType |-> "", typeId |-> id]

NoMembers == [k \in {} |-> PlainMember]

-----------------------------------------------------------------------------
(* The records of an input list: type, id, name and, for a class, at most   *)
(* one member "m" whose "propertyType" names a type (or is absent).         *)

RecordMembers == {[k \in {} |-> ""]} \cup {[k \in {"m"} |-> n] : n \in Names}

Records ==
    {[type |-> "class", id |-> i, name |-> n, members |-> ms] :
        i \in 0..MaxRecId, n \in Names, ms \in RecordMembers}
    \cup
    {[type |-> t, id |-> i, name |-> n, members |-> [k \in {} |-> ""]] :
        t \in TypeStrings \ {"class"}, i \in 0..MaxRecId, n \in Names}

\* a typeFromString without the compatibility case of the empty string
typeFromStringNoEmpty(s) ==
    IF s = "enum" THEN "PT_Enum"
    ELSE IF s = "class" THEN "PT_Class"
    ELSE "PT_Invalid"

\* PropertyType::typeFromString
typeFromString(s) ==
    IF s = "enum" \/ s = "" THEN "PT_Enum"
    ELSE IF s = "class" THEN "PT_Class"
    ELSE "PT_Invalid"

\* ClassPropertyType::fromVariant: members.insert(name, map)
ClassFromVariant(variant) ==
    [k \in DOMAIN variant.members |-> RawMember(variant.members[k])]

\* the constructor of PropertyType takes the counter's next value: id(++nextId)
ConstructedId(counter) == counter + 1

\* a createFromVariant that assigns the record's id to the counter
AdvanceNextIdAssign(counter, id) == id

\* nextId = std::max(nextId, id)
AdvanceNextId(counter, id) == Max(counter, id)

\* PropertyType::createFromVariant: the unique_ptr returned, as a sequence
\* that is empty (null) or holds the type built
createFromVariant(variant) ==
    LET type == typeFromString(variant.type) IN
    IF type = "PT_Invalid" THEN <<>>
    ELSE <<[type |-> type, id |-> variant.id, name |-> variant.name,
            members |-> IF type = "PT_Class" THEN ClassFromVariant(variant)
                        ELSE NoMembers]>>

-----------------------------------------------------------------------------
(* Lookups of the registry: linear scans, the first match wins.             *)

FirstIndex(S) == IF S = {} THEN NotFound ELSE CHOOSE i \in S : \A j \in S : i <= j

findTypeById(types, typeId) ==
    FirstIndex({i \in 1..Len(types) : types[i].id = typeId})

findTypeByName(types, name) ==
    FirstIndex({i \in 1..Len(types) : types[i].name = name})

count(types, type) == Cardinality({i \in 1..Len(types) : types[i].type = type})

\* ExportContext::toPropertyValue(ExportValue): a value whose propertyTypeName
\* names a type of the registry is wrapped with that type's id
ContextToPropertyValue(types, member) ==
    IF member.tag # "map" THEN member
    ELSE LET t == IF member.propertyType = "" THEN NotFound
                  ELSE findTypeByName(types, member.propertyType) IN
         IF t = NotFound THEN PlainMember ELSE wrap(types[t].id)

\* ClassPropertyType::resolveDependencies (a no-op for an enum)
resolveDependencies(types, t) ==
    [types EXCEPT ![t].members =
        [k \in DOMAIN types[t].members |->
            ContextToPropertyValue(types, types[t].members[k])]]

-----------------------------------------------------------------------------
(* ClassPropertyType::canAddMemberOfType(propertyType), for the class at    *)
(* index this.  The recursion of the code has no visited set: entering a    *)
(* class that is already being examined repeats the same calls for ever,    *)
(* which ends in "overflow" (the stack runs out).                           *)

\* PropertyValue::type(): the type of the registry that carries the id
MemberType(types, member) ==
    IF member.tag # "PropertyValue" THEN NotFound
    ELSE findTypeById(types, member.typeId)

RECURSIVE CanAddWalk(_, _, _, _)
RECURSIVE CanAddMembers(_, _, _, _, _)

CanAddWalk(types, this, p, stack) ==
    IF p = this THEN "false"
    ELSE IF types[p].type # "PT_Class" THEN "true"
    ELSE IF p \in stack THEN "overflow"
    ELSE CanAddMembers(types, this, p, 1, stack \cup {p})

CanAddMembers(types, this, p, i, stack) ==
    IF i > Len(MemberOrder) THEN "true"
    ELSE LET k == MemberOrder[i] IN
         IF k \notin DOMAIN types[p].members
         THEN CanAddMembers(types, this, p, i + 1, stack)
         ELSE LET q == MemberType(types, types[p].members[k]) IN
              IF q = NotFound
              THEN CanAddMembers(types, this, p, i + 1, stack)
              ELSE LET r == CanAddWalk(types, this, q, stack) IN
                   IF r = "true"
                   THEN CanAddMembers(types, this, p, i + 1, stack)
                   ELSE r

canAddMemberOfType(types, this, propertyType) ==
    CanAddWalk(types, this, propertyType, {})

-----------------------------------------------------------------------------
(* PropertyTypes::loadFrom, one step per iteration of its two loops.  The   *)
(* list is read-only and the first loop reads each record once, so the      *)
(* records are drawn when they are read: listLen is the length of the list  *)
(* handed to the call, list the records read so far.                        *)

\* a loadFrom whose first loop stops after its first record
FirstPassDoneEarly(i, n) == i > n \/ i > 1

\* the first loop has visited every record of the list
FirstPassDone(i, n) == i > n

\* where loadFrom stands once the first loop is at record i
AfterCreate(i, n, types) ==
    IF ~FirstPassDone(i, n) THEN <<"create", i>>
    ELSE IF Len(types) >= 1 THEN <<"resolve", 1>>
    ELSE <<"loaded", 0>>

\* the call with a list of n records: clear(), then the first loop starts
LoadBegin(n) ==
    /\ pc \in {"idle", "loaded"}
    /\ Max(nextId, MaxRecId) + n < MaxNextId
    /\ listLen' = n
    /\ list' = <<>>
    /\ mTypes' = <<>>
    /\ pc' = AfterCreate(1, n, <<>>)[1]
    /\ idx' = AfterCreate(1, n, <<>>)[2]
    /\ UNCHANGED <<nextId, maxIssued>>

\* one iteration of the first loop, on the record typeValue: createFromVariant,
\* then add
LoadCreate(typeValue) ==
    /\ pc = "create"
    /\ list' = Append(list, typeValue)
    /\ LET propertyType == createFromVariant(typeValue)
           types == mTypes \o propertyType IN
       /\ mTypes' = types
       /\ nextId' = IF propertyType = <<>> THEN nextId
                    ELSE AdvanceNextId(ConstructedId(nextId), propertyType[1].id)
       /\ maxIssued' = IF propertyType = <<>> THEN maxIssued
                       ELSE Max(maxIssued,
                                Max(ConstructedId(nextId), propertyType[1].id))
       /\ pc' = AfterCreate(idx + 1, listLen, types)[1]
       /\ idx' = AfterCreate(idx + 1, listLen, types)[2]
    /\ UNCHANGED listLen

\* one iteration of the second loop: resolveDependencies on mTypes[idx]
LoadResolve ==
    /\ pc = "resolve"
    /\ mTypes' = resolveDependencies(mTypes, idx)
    /\ IF idx + 1 > Len(mTypes)
       THEN pc' = "loaded" /\ idx' = 0
       ELSE pc' = "resolve" /\ idx' = idx + 1
    /\ UNCHANGED <<nextId, maxIssued, list, listLen>>

\* the editor adds to class t a member k of the custom type c, which it does
\* only when canAddMemberOfType allows it; the member holds c's wrapped default
AddMember(t, k, c) ==
    /\ pc \in {"idle", "loaded"}
    /\ t \in 1..Len(mTypes) /\ c \in 1..Len(mTypes)
    /\ mTypes[t].type = "PT_Class"
    /\ canAddMemberOfType(mTypes, t, c) = "true"
    /\ mTypes' = [mTypes EXCEPT ![t].members =
                    [x \in DOMAIN mTypes[t].members \cup {k} |->
                        IF x = k THEN wrap(mTypes[c].id) ELSE mTypes[t].members[x]]]
    /\ pc' = "idle"
    /\ UNCHANGED <<nextId, maxIssued, list, listLen, idx>>

RegistryInit ==
    /\ mTypes = <<>>
    /\ nextId = 0
    /\ maxIssued = 0
    /\ list = <<>>
    /\ listLen = 0
    /\ pc = "idle"
    /\ idx = 0

EnumIdle == enumDef = 0 /\ enumIn = 0 /\ enumOut = 0
ClassIdle == classDef = 0 /\ classIn = 0 /\ classOut = 0

Init == RegistryInit /\ EnumIdle /\ ClassIdle

\* the steps of loadFrom
NextLoad ==
    \/ \E n \in 0..MaxLen : LoadBegin(n) /\ UNCHANGED <<enumVars, classVars>>
    \/ \E typeValue \in Records :
            LoadCreate(typeValue) /\ UNCHANGED <<enumVars, classVars>>
    \/ LoadResolve /\ UNCHANGED <<enumVars, classVars>>

\* loads of the registry alone
SpecLoad == Init /\ [][NextLoad]_vars

\* loads, and the editor adding members between them
Next ==
    \/ NextLoad
    \/ \E t \in 1..MaxLen, k \in MemberNames, c \in 1..MaxLen :
            AddMember(t, k, c) /\ UNCHANGED <<enumVars, classVars>>

Spec == Init /\ [][Next]_vars

-----------------------------------------------------------------------------
(* QVariant values: an int, a QString (a sequence of characters), a         *)
(* QVariantMap, or a PropertyValue { value, typeId }.                       *)

MaxValues == 2       \* longest values list of an enum
MaxNameLen == 1      \* longest name in a values list
MaxStrLen == 3       \* longest string handed to EnumPropertyType::toPropertyValue

Alphabet == {"a", "b", ","}
StringsUpTo(n) == UNION {[1..k -> Alphabet] : k \in 0..n}

IntV(n) == [t |-> "int", v |-> n]
StrV(str) == [t |-> "string", v |-> str]
MapV(m) == [t |-> "map", v |-> m]

\* PropertyType::wrap: PropertyValue { value, id }
wrapValue(id, value) == [t |-> "PropertyValue", v |-> value, typeId |-> id]

\* ExportContext::toExportValue on an int or a string keeps the value and
\* names its type; PropertyType::toExportValue stamps the type's name on it
BaseToExportValue(def, value) ==
    [value |-> value, typeName |-> value.t, propertyTypeName |-> def.name]

\* an indexOf that reports the last match instead of the first
indexOfLast(values, str) ==
    IF \E i \in 1..Len(values) : values[i] = str
    THEN (CHOOSE i \in 1..Len(values) :
            values[i] = str /\ \A j \in (i + 1)..Len(values) : values[j] # str) - 1
    ELSE -1

\* QStringList::indexOf / indexOf(values, stringValue): 0-based, -1 if absent
indexOf(values, str) ==
    IF \E i \in 1..Len(values) : values[i] = str
    THEN (CHOOSE i \in 1..Len(values) :
            values[i] = str /\ \A j \in 1..(i - 1) : values[j] # str) - 1
    ELSE -1

\* intValue & (1 << i)
BitSet(n, i) == (n \div (2 ^ i)) % 2 = 1

\* flags |= 1 << index
OrBit(flags, index) == IF BitSet(flags, index) THEN flags ELSE flags + 2 ^ index

\* an export loop of flags that appends the names without the separator
RECURSIVE JoinFlagsNoSeparator(_, _, _, _)
JoinFlagsNoSeparator(values, intValue, i, stringValue) ==
    IF i >= Len(values) THEN stringValue
    ELSE IF BitSet(intValue, i)
         THEN JoinFlagsNoSeparator(values, intValue, i + 1, stringValue \o values[i + 1])
         ELSE JoinFlagsNoSeparator(values, intValue, i + 1, stringValue)

\* the export loop of flags: the names of the set bits, by ascending index,
\* each but the first preceded by ','
RECURSIVE JoinFlags(_, _, _, _)
JoinFlags(values, intValue, i, stringValue) ==
    IF i >= Len(values) THEN stringValue
    ELSE IF BitSet(intValue, i)
         THEN JoinFlags(values, intValue, i + 1,
                        (IF stringValue # <<>> THEN Append(stringValue, ",")
                         ELSE stringValue) \o values[i + 1])
         ELSE JoinFlags(values, intValue, i + 1, stringValue)

\* EnumPropertyType::toExportValue
EnumToExportValue(def, value) ==
    IF value.t = "int" /\ def.storageType = "StringValue"
    THEN IF def.valuesAsFlags
         THEN BaseToExportValue(def, StrV(JoinFlags(def.values, value.v, 0, <<>>)))
         ELSE IF value.v >= 0 /\ value.v < Len(def.values)
              THEN BaseToExportValue(def, StrV(def.values[value.v + 1]))
              ELSE BaseToExportValue(def, value)
    ELSE BaseToExportValue(def, value)

\* split(',', Qt::SkipEmptyParts): cur is the segment being read
RECURSIVE SplitFrom(_, _, _, _)
SplitFrom(str, i, cur, parts) ==
    IF i > Len(str)
    THEN IF cur = <<>> THEN parts ELSE Append(parts, cur)
    ELSE IF str[i] = ","
         THEN SplitFrom(str, i + 1, <<>>,
                        IF cur = <<>> THEN parts ELSE Append(parts, cur))
         ELSE SplitFrom(str, i + 1, Append(cur, str[i]), parts)

Split(str) == SplitFrom(str, 1, <<>>, <<>>)

\* an import loop of flags that skips a segment that is no name of values
RECURSIVE FlagsLoopSkip(_, _, _, _)
FlagsLoopSkip(values, stringValues, i, flags) ==
    IF i > Len(stringValues) THEN flags
    ELSE LET index == indexOf(values, stringValues[i]) IN
         IF index = -1 THEN FlagsLoopSkip(values, stringValues, i + 1, flags)
         ELSE FlagsLoopSkip(values, stringValues, i + 1, OrBit(flags, index))

\* the import loop of flags: -1 stands for the early return on a segment that
\* is no name of values
RECURSIVE FlagsLoop(_, _, _, _)
FlagsLoop(values, stringValues, i, flags) ==
    IF i > Len(stringValues) THEN flags
    ELSE LET index == indexOf(values, stringValues[i]) IN
         IF index = -1 THEN -1
         ELSE FlagsLoop(values, stringValues, i + 1, OrBit(flags, index))

\* EnumPropertyType::toPropertyValue
EnumToPropertyValue(def, value) ==
    IF value.t = "string"
    THEN IF def.valuesAsFlags
         THEN LET flags == FlagsLoop(def.values, Split(value.v), 1, 0) IN
              IF flags = -1 THEN wrapValue(def.id, value)
              ELSE wrapValue(def.id, IntV(flags))
         ELSE LET index == indexOf(def.values, value.v) IN
              IF index # -1 THEN wrapValue(def.id, IntV(index))
              ELSE wrapValue(def.id, value)
    ELSE wrapValue(def.id, value)

-----------------------------------------------------------------------------
(* The conversions of an enum applied to bounded inputs.                    *)

EnumNames == StringsUpTo(MaxNameLen)
EnumValueLists == UNION {[1..k -> EnumNames] : k \in 0..MaxValues}

\* EnumPropertyType::fromVariant yields any of these definitions
EnumDefs ==
    {[id |-> 1, name |-> "E", storageType |-> st, values |-> vs, valuesAsFlags |-> fl] :
        st \in {"IntValue", "StringValue"}, vs \in EnumValueLists, fl \in BOOLEAN}

EnumInts == {IntV(n) : n \in 0..(2 ^ MaxValues)}
EnumStrings == {StrV(str) : str \in StringsUpTo(MaxStrLen)}

NoCall == [op |-> "none"]

\* toExportValue(value) of the enum
ExportEnumValue(value) ==
    /\ enumIn = NoCall
    /\ enumIn' = [op |-> "export", value |-> value]
    /\ enumOut' = EnumToExportValue(enumDef, value)
    /\ UNCHANGED enumDef

\* toPropertyValue(value) of the enum
ImportEnumValue(value) ==
    /\ enumIn = NoCall
    /\ enumIn' = [op |-> "import", value |-> value]
    /\ enumOut' = EnumToPropertyValue(enumDef, value)
    /\ UNCHANGED enumDef

\* toPropertyValue of what the last toExportValue returned
ImportExported ==
    /\ enumIn.op = "export"
    /\ enumIn' = [op |-> "roundtrip", value |-> enumIn.value]
    /\ enumOut' = EnumToPropertyValue(enumDef, enumOut.value)
    /\ UNCHANGED enumDef

InitEnum ==
    /\ RegistryInit /\ ClassIdle
    /\ enumDef \in EnumDefs
    /\ enumIn = NoCall
    /\ enumOut = NoCall

NextEnum ==
    \/ \E value \in EnumInts : ExportEnumValue(value) /\ UNCHANGED <<registryVars, classVars>>
    \/ \E value \in EnumInts \cup EnumStrings :
            ImportEnumValue(value) /\ UNCHANGED <<registryVars, classVars>>
    \/ ImportExported /\ UNCHANGED <<registryVars, classVars>>

SpecEnum == InitEnum /\ [][NextEnum]_vars

-----------------------------------------------------------------------------
(* ClassPropertyType::toPropertyValue.                                      *)

NoProperties == [k \in {} |-> IntV(0)]

\* QVariant::toMap: the mapping held, or an empty one
toMap(value) == IF value.t = "map" THEN value.v ELSE NoProperties

\* ExportContext::toPropertyValue(value, metaType): a value of the type asked
\* for, or of a map or PropertyValue hint, is returned as it is; otherwise
\* QVariant::convert turns an int into its digits and a non-numeric string
\* into 0
ContextConvert(value, metaType) ==
    IF value.t = metaType \/ metaType \in {"map", "PropertyValue"} THEN value
    ELSE IF metaType = "string" /\ value.t = "int"
         THEN StrV(<<IF value.v = 0 THEN "0" ELSE "1">>)
         ELSE IF metaType = "int" THEN IntV(0)
         ELSE value

\* a toPropertyValue that erases the keys that are no members of the class
RECURSIVE ClassToPropertyValueDropStale(_, _, _)
ClassToPropertyValueDropStale(types, def, value) ==
    LET properties == toMap(value) IN
    wrapValue(def.id, MapV(
        [k \in DOMAIN properties \cap DOMAIN def.members |->
            LET classMember == def.members[k]
                propertyValue == ContextConvert(properties[k], classMember.t)
                t == IF classMember.t = "PropertyValue"
                     THEN findTypeById(types, classMember.typeId)
                     ELSE NotFound IN
            IF t = NotFound THEN propertyValue
            ELSE IF types[t].type = "PT_Enum"
                 THEN EnumToPropertyValue(types[t], propertyValue)
                 ELSE ClassToPropertyValueDropStale(types, types[t], propertyValue)]))

\* ClassPropertyType::toPropertyValue: a key that is no member is skipped by
\* "continue" and stays in the mapping with the value it had
RECURSIVE ClassToPropertyValue(_, _, _)
ClassToPropertyValue(types, def, value) ==
    LET properties == toMap(value) IN
    wrapValue(def.id, MapV(
        [k \in DOMAIN properties |->
            IF k \notin DOMAIN def.members THEN properties[k]
            ELSE LET classMember == def.members[k]
                     propertyValue == ContextConvert(properties[k], classMember.t)
                     t == IF classMember.t = "PropertyValue"
                          THEN findTypeById(types, classMember.typeId)
                          ELSE NotFound IN
                 IF t = NotFound THEN propertyValue
                 ELSE IF types[t].type = "PT_Enum"
                      THEN EnumToPropertyValue(types[t], propertyValue)
                      ELSE ClassToPropertyValue(types, types[t], propertyValue)]))

\* the types the members of the class under conversion can be wrapped with:
\* an enum (id 1) and a class without members (id 2)
ContextTypes ==
    <<[type |-> "PT_Enum", id |-> 1, name |-> "E", storageType |-> "StringValue",
       values |-> << <<"a">>, <<"b">> >>, valuesAsFlags |-> FALSE],
      [type |-> "PT_Class", id |-> 2, name |-> "K", members |-> NoProperties]>>

\* the default values a member is declared with: plain values, and values
\* wrapped with the enum, with the class, and with an id no type carries
MemberDefaults ==
    {IntV(0), StrV(<<>>), wrapValue(1, IntV(0)), wrapValue(2, MapV(NoProperties)),
     wrapValue(9, IntV(0))}

ClassMemberMaps ==
    UNION {[ks -> MemberDefaults] : ks \in SUBSET MemberNames}

ClassDefs ==
    {[type |-> "PT_Class", id |-> 3, name |-> "C", members |-> ms] :
        ms \in ClassMemberMaps}

\* instance data: any keys among the member names and a name no class declares
InstanceKeys == MemberNames \cup {"x"}
InstanceValues == {IntV(1), StrV(<<"a">>)}
InstanceMaps == UNION {[ks -> InstanceValues] : ks \in SUBSET InstanceKeys}

\* toPropertyValue(value) of the class
ImportClassValue(value) ==
    /\ classIn = NoCall
    /\ classIn' = [op |-> "import", value |-> value]
    /\ classOut' = ClassToPropertyValue(ContextTypes, classDef, value)
    /\ UNCHANGED classDef

InitClass ==
    /\ RegistryInit /\ EnumIdle
    /\ classDef \in ClassDefs
    /\ classIn = NoCall
    /\ classOut = NoCall

NextClass ==
    \E m \in InstanceMaps :
        ImportClassValue(MapV(m)) /\ UNCHANGED <<registryVars, enumVars>>

SpecClass == InitClass /\ [][NextClass]_vars

-----------------------------------------------------------------------------
(* Properties of the registry.                                              *)

\* the records of a list from which a type is built, in input order
IsValidRecord(r) == r.type \in {"enum", "class", ""}
ValidRecords(l) == SelectSeq(l, IsValidRecord)

\* resolveDependencies has run on mTypes[j] in the loadFrom at hand
Resolved(j) == pc = "loaded" \/ (pc = "resolve" /\ j < idx)

\* C1: resolveDependencies runs on a type only once every valid record of the
\* list is in the registry: while the second loop runs, every record of the
\* list has been read, the registry holds one type per valid record, a lookup by the id and by the name of every valid
\* record finds a type, and every member already resolved whose propertyType
\* names a valid record of the list (earlier or later) is wrapped with the id
\* of the first type of that name.
C1_ResolveAfterAllAdded ==
    pc \in {"resolve", "loaded"} =>
        LET valid == ValidRecords(list) IN
        /\ Len(list) = listLen
        /\ Len(mTypes) = Len(valid)
        /\ \A i \in 1..Len(valid) :
              /\ findTypeById(mTypes, valid[i].id) # NotFound
              /\ findTypeByName(mTypes, valid[i].name) # NotFound
        /\ \A j \in 1..Len(valid) :
              (Resolved(j) /\ valid[j].type = "class") =>
                 \A k \in DOMAIN valid[j].members :
                    \A i \in 1..Len(valid) :
                       (valid[i].name = valid[j].members[k]
                        /\ \A h \in 1..(i - 1) : valid[h].name # valid[i].name)
                       => mTypes[j].members[k] = wrap(valid[i].id)

\* the first class of the list refers to the class declared after it, and its
\* member was resolved to that class
C1_Witness ==
    /\ pc = "resolve" /\ idx = 2
    /\ Len(list) = 2 /\ Len(mTypes) = 2
    /\ list[1].type = "class" /\ list[2].type = "class"
    /\ list[1].name # list[2].name
    /\ list[1].id # list[2].id
    /\ DOMAIN list[1].members = {"m"}
    /\ list[1].members["m"] = list[2].name
    /\ mTypes[1].members["m"] = wrap(list[2].id)

\* C2: the registry holds at most one type per id.
C2_OneTypePerId ==
    \A i, j \in 1..Len(mTypes) : mTypes[i].id = mTypes[j].id => i = j

\* C3: the counter never decreases, and after every step it is at least every
\* id a type was ever given (by a record or by the constructor) and every id
\* in the registry, so the counter's next value is an id never handed out.
C3_CounterMonotonic ==
    [][/\ nextId' >= nextId
       /\ nextId' >= maxIssued'
       /\ \A i \in 1..Len(mTypes') : mTypes'[i].id < ConstructedId(nextId')]_vars

\* a record with id 2 was loaded, then a record without id: the counter passed 2
C3_Witness ==
    /\ pc = "loaded" /\ Len(mTypes) = 2
    /\ mTypes[1].id = 2 /\ mTypes[2].id = 0
    /\ nextId = 3

\* C4 as stated: after loadFrom the registry holds the types of the valid
\* records in input order, and a lookup by id and by name locates every one of
\* them exactly once.
C4_EveryRecordLocatedOnce ==
    pc = "loaded" =>
        LET valid == ValidRecords(list) IN
        /\ Len(mTypes) = Len(valid)
        /\ \A i \in 1..Len(valid) :
              /\ mTypes[i].id = valid[i].id
              /\ mTypes[i].name = valid[i].name
              /\ mTypes[i].type = typeFromString(valid[i].type)
              /\ findTypeById(mTypes, valid[i].id) = i
              /\ findTypeByName(mTypes, valid[i].name) = i
              /\ Cardinality({j \in 1..Len(mTypes) : mTypes[j].id = valid[i].id}) = 1
              /\ Cardinality({j \in 1..Len(mTypes) : mTypes[j].name = valid[i].name}) = 1

\* C4 amended: after loadFrom the registry holds the types of the valid
\* records in input order (as many as there are valid records); a lookup by
\* id (by name) returns the first valid record with that id (name), so a valid
\* record is located at its own place when no earlier valid record shares its
\* id (name), and is shadowed by the earlier one otherwise.
C4_FirstRecordLocated ==
    pc = "loaded" =>
        LET valid == ValidRecords(list) IN
        /\ Len(mTypes) = Len(valid)
        /\ count(mTypes, "PT_Enum") + count(mTypes, "PT_Class") = Len(valid)
        /\ \A i \in 1..Len(valid) :
              /\ mTypes[i].id = valid[i].id
              /\ mTypes[i].name = valid[i].name
              /\ mTypes[i].type = (IF valid[i].type = "class" THEN "PT_Class"
                                   ELSE "PT_Enum")
              /\ IF \E h \in 1..(i - 1) : valid[h].id = valid[i].id
                 THEN findTypeById(mTypes, valid[i].id) \in 1..(i - 1)
                 ELSE findTypeById(mTypes, valid[i].id) = i
              /\ IF \E h \in 1..(i - 1) : valid[h].name = valid[i].name
                 THEN findTypeByName(mTypes, valid[i].name) \in 1..(i - 1)
                 ELSE findTypeByName(mTypes, valid[i].name) = i

\* a second load of a list with a record of unknown type and a record with
\* the empty type string: one type is owned
C4_Witness ==
    /\ pc = "loaded" /\ nextId >= 3
    /\ Len(list) = 2 /\ Len(mTypes) = 1
    /\ list[1].type = "bogus" /\ list[2].type = ""
    /\ findTypeByName(mTypes, list[2].name) = 1

\* class p has a member whose type is the class q
MemberEdge(p, q) ==
    /\ mTypes[p].type = "PT_Class" /\ mTypes[q].type = "PT_Class"
    /\ \E k \in DOMAIN mTypes[p].members :
          MemberType(mTypes, mTypes[p].members[k]) = q

\* the classes reached from the set S by following members
RECURSIVE Closure(_)
Closure(S) ==
    LET T == S \cup {q \in 1..Len(mTypes) : \E p \in S : MemberEdge(p, q)} IN
    IF T = S THEN S ELSE Closure(T)

\* class p contains class q, directly or through a chain of members
Contains(p, q) ==
    q \in Closure({r \in 1..Len(mTypes) : MemberEdge(p, r)})

\* C5: no class contains itself, directly or transitively.
C5_NoClassContainsItself ==
    \A p \in 1..Len(mTypes) : ~Contains(p, p)

\* C6: canAddMemberOfType(C) of class T is false when C is T, false when C is
\* a class with a member typed as a class A that is T or contains T, and true
\* when C is not a class.
C6_CanAddMemberOfType ==
    \A t, c \in 1..Len(mTypes) :
        mTypes[t].type = "PT_Class" =>
            /\ c = t => canAddMemberOfType(mTypes, t, c) = "false"
            /\ mTypes[c].type # "PT_Class" =>
                  canAddMemberOfType(mTypes, t, c) = "true"
            /\ (c # t /\ \E a \in 1..Len(mTypes) :
                    MemberEdge(c, a) /\ (a = t \/ Contains(a, t)))
               => canAddMemberOfType(mTypes, t, c) = "false"

-----------------------------------------------------------------------------
(* Properties of the enum conversions.                                      *)

\* the sum of 2^i over the indices of S: the OR of 1 << i
RECURSIVE SumBits(_)
SumBits(S) ==
    IF S = {} THEN 0
    ELSE LET i == CHOOSE x \in S : TRUE IN 2 ^ i + SumBits(S \ {i})

\* the 0-based index of the first entry of values that equals name
FirstPosition(values, name) ==
    (CHOOSE i \in 1..Len(values) :
        values[i] = name /\ \A j \in 1..(i - 1) : values[j] # name) - 1

NoDuplicateNames(values) ==
    \A i, j \in 1..Len(values) : values[i] = values[j] => i = j

\* the name is not empty and holds no ','
PlainName(name) == name # <<>> /\ \A i \in 1..Len(name) : name[i] # ","

\* C8: with valuesAsFlags, toPropertyValue of a string with a segment that is
\* no name of values returns the string wrapped unchanged; when every segment
\* is a name it returns the wrapped OR of 1 << index over the segments.
C8_FlagsImportAllOrNothing ==
    (enumIn.op = "import" /\ enumDef.valuesAsFlags /\ enumIn.value.t = "string") =>
        LET segments == Split(enumIn.value.v)
            names == {enumDef.values[i] : i \in 1..Len(enumDef.values)} IN
        IF \E k \in 1..Len(segments) : segments[k] \notin names
        THEN enumOut = wrapValue(enumDef.id, enumIn.value)
        ELSE enumOut = wrapValue(enumDef.id,
                IntV(SumBits({FirstPosition(enumDef.values, segments[k]) :
                                k \in 1..Len(segments)})))

\* values = ["a"], input "a,b": the string comes back, not the bitmask 1
C8_Witness ==
    /\ enumIn = [op |-> "import", value |-> StrV(<<"a", ",", "b">>)]
    /\ enumDef.valuesAsFlags
    /\ enumDef.values = << <<"a">> >>
    /\ enumOut = wrapValue(enumDef.id, StrV(<<"a", ",", "b">>))

\* C9 as stated: without valuesAsFlags, importing the exported index i gives i.
C9_IndexRoundTrip ==
    (/\ enumIn.op = "roundtrip" /\ ~enumDef.valuesAsFlags
     /\ enumIn.value.v \in 0..(Len(enumDef.values) - 1))
    => enumOut = wrapValue(enumDef.id, enumIn.value)

\* C9 amended: without valuesAsFlags, importing the exported index i gives i
\* when storageType is IntValue or no earlier entry of values equals
\* values[i]; otherwise it gives the index of the first entry equal to values[i].
C9_IndexRoundTripFirst ==
    (/\ enumIn.op = "roundtrip" /\ ~enumDef.valuesAsFlags
     /\ enumIn.value.v \in 0..(Len(enumDef.values) - 1))
    => LET i == enumIn.value.v IN
       IF \/ enumDef.storageType = "IntValue"
          \/ \A j \in 1..i : enumDef.values[j] # enumDef.values[i + 1]
       THEN enumOut = wrapValue(enumDef.id, IntV(i))
       ELSE /\ enumOut.v.t = "int" /\ enumOut.v.v \in 0..(i - 1)
            /\ enumDef.values[enumOut.v.v + 1] = enumDef.values[i + 1]
            /\ \A j \in 1..enumOut.v.v : enumDef.values[j] # enumDef.values[i + 1]

\* the second of two distinct names, stored as string, comes back as index 1
C9_Witness ==
    /\ enumIn = [op |-> "roundtrip", value |-> IntV(1)]
    /\ ~enumDef.valuesAsFlags /\ enumDef.storageType = "StringValue"
    /\ Len(enumDef.values) = 2 /\ enumDef.values[1] # enumDef.values[2]
    /\ enumOut = wrapValue(enumDef.id, IntV(1))

\* C10 as stated: with valuesAsFlags and no duplicate names, importing the
\* exported bitmask f gives f.
C10_FlagsRoundTrip ==
    (/\ enumIn.op = "roundtrip" /\ enumDef.valuesAsFlags
     /\ NoDuplicateNames(enumDef.values)
     /\ enumIn.value.v \in 0..(2 ^ Len(enumDef.values) - 1))
    => enumOut = wrapValue(enumDef.id, enumIn.value)

\* C10 amended: with valuesAsFlags, no duplicate names, and no name that is
\* empty or holds a ',', importing the exported bitmask f gives f.
C10_FlagsRoundTripPlainNames ==
    (/\ enumIn.op = "roundtrip" /\ enumDef.valuesAsFlags
     /\ NoDuplicateNames(enumDef.values)
     /\ \A i \in 1..Len(enumDef.values) : PlainName(enumDef.values[i])
     /\ enumIn.value.v \in 0..(2 ^ Len(enumDef.values) - 1))
    => enumOut = wrapValue(enumDef.id, enumIn.value)

\* both flags of ["a", "b"], stored as string, come back as the bitmask 3
C10_Witness ==
    /\ enumIn = [op |-> "roundtrip", value |-> IntV(3)]
    /\ enumDef.valuesAsFlags /\ enumDef.storageType = "StringValue"
    /\ enumDef.values = << <<"a">>, <<"b">> >>
    /\ enumOut = wrapValue(enumDef.id, IntV(3))

-----------------------------------------------------------------------------
(* Properties of the class conversion.                                      *)

====
